---- MODULE Spec2Model ----
(***************************************************************************)
(* A model of loom-dl.js: the batch runner (downloadFromList, asyncPool,   *)
(* downloadTask), the dedup log (readDownloadedLog, appendToLogFile), the  *)
(* retry wrapper (backoff), URL resolution (fetchLoomDownloadUrl), the     *)
(* single download (downloadSingleFile), one download attempt             *)
(* (downloadLoomVideo), the separate-streams download                      *)
(* (downloadWithSeparateStreams), extractId and the command line (argv,    *)
(* main).  Each part has its own specification: Spec (SpecLive with       *)
(* fairness, SpecNoLog without a readable log), SpecTimeout, SpecBackoff,  *)
(* SpecFetch, SpecSingle, SpecDownload, SpecStreams, SpecExtract,          *)
(* SpecMain.                                                               *)
(*                                                                         *)
(* The program runs on one JavaScript event loop.  Synchronous code runs   *)
(* to completion, then the promise jobs queued so far run in FIFO order    *)
(* (variable mq), and only when none is left does the loop deliver the     *)
(* next I/O completion or timer (the actions FetchDone, AttemptDone,       *)
(* BackoffTimer, AppendDone, CooldownDone).  Network requests, external    *)
(* tools and file operations finish in any order and with any outcome the  *)
(* code distinguishes; timers are not ordered against each other.          *)
(***************************************************************************)
EXTENDS Integers, Sequences, FiniteSets, TLC

\* ---------------------------------------------------------------- bounds
\* Longest list file, in lines.
MaxList == 3
\* Largest concurrency limit handed to asyncPool.
MaxLimit == 2
\* Most entries of downloaded.log before the run.
MaxLog == 1
\* Largest retry count handed to backoff on its own.
MaxRetries == 8
\* most video records in the page's Apollo state
MaxRecords == 2
\* most direct .mp4 links in the page
MaxLinks == 2
\* most pieces of a URL given to extractId
MaxUrlLen == 4

\* ------------------------------------------------------ program constants
\* backoff: the delay ceiling and the default first delay (line 215).
MaxDelay == 32000
DefaultDelay == 1000
\* downloadTask: backoff(5, ...) and delay(5000) (lines 466, 469).
TaskRetries == 5
CooldownMs == 5000
\* main: process.exit(1) (lines 1073, 1084), and the exit of a failed
\* argument check.
ExitFailure == 1
\* downloadFromList: the limit it hands to asyncPool (line 476).
concurrencyLimit == 5

\* ------------------------------------------------------------ input sets
\* Share URLs are opaque strings; a list line is a URL, the empty line or a
\* line of white space.
Urls == {"A", "B"}
BlankLines == {"", " "}
Lines == Urls \cup BlankLines
\* First delays handed to backoff on its own.
Delays == {500, 1000, 16000, 32000, 40000}
\* The errors fn can reject with.
Errs == {"e1", "e2"}

SeqsUpTo(S, n) == UNION {[1..k -> S] : k \in 0..n}
Range(s) == {s[k] : k \in DOMAIN s}

VARIABLES
  list,           \* the lines of the --list file
  logFile,        \* the lines of downloaded.log, in file order
  logReadable,    \* whether the readFile of downloaded.log succeeds
  poolLimit,      \* asyncPool's poolLimit
  pc,             \* where downloadFromList / asyncPool stands
  downloadedSet,  \* downloadFromList: the set read from the log
  urls,           \* downloadFromList: the filtered list (asyncPool's array)
  i,              \* asyncPool: index of the next item of the for loop
  ret,            \* asyncPool: the tasks whose promise p was created
  executing,      \* asyncPool: the tasks whose promise e is in executing
  racing,         \* asyncPool: the promises handed to the pending Promise.race
  mq,             \* the event loop's queue of promise jobs
  task,           \* per task: position in downloadTask and in its backoff
  started,        \* history: the tasks in the order iteratorFn was called
  awaiting,       \* history: tasks whose download succeeded, append pending
  appended,       \* history: the task that wrote each line added to the log
  log0,           \* history: the log as it was before the run
  bN, bD,         \* backoff on its own: the arguments retries and delay
  bFn,            \* backoff on its own: "fails" if fn rejects every time
  bSt,            \* backoff on its own: position
  bRetries,       \* backoff on its own: retries of the current call
  bDelay,         \* backoff on its own: delay of the current call
  bAttempts,      \* backoff on its own: history, number of fn() calls
  bWaits,         \* backoff on its own: history, the setTimeout delays
  bErrs,          \* backoff on its own: history, the error of each failed fn()
  bResult,        \* backoff on its own: the value backoff rejected with
  bSucc,          \* backoff on its own: history, the attempts that succeeded
  page,           \* fetchLoomDownloadUrl: what the share page holds
  fSt,            \* fetchLoomDownloadUrl: position
  fGet,           \* fetchLoomDownloadUrl: history, outcome of the page request
  fRan,           \* fetchLoomDownloadUrl: history, the strategies have run
  fExtracted,     \* fetchLoomDownloadUrl: history, videoUrl at line 176
  fUrl,           \* fetchLoomDownloadUrl: videoUrl
  fErr,           \* fetchLoomDownloadUrl: the error it rejected with
  fApiCalls,      \* fetchLoomDownloadUrl: history, requests to the old API
  sPc,            \* downloadSingleFile: position
  sAttempts,      \* downloadSingleFile: history, calls of downloadLoomVideo
  aUrl, aList,    \* the command line: --url and --list (<<>> when absent)
  aTimeout,       \* the command line: --timeout (<<>> when absent)
  mPc,            \* the process: argument parsing, then main
  mNet,           \* main: history, network requests made
  mTools,         \* main: history, tool availability checks made
  mFfmpeg,        \* main: ffmpegAvailable
  mYtDlp,         \* main: ytDlpAvailable
  mExit,          \* the process: <<code>> once process.exit(code) was called
  sUrl, sOut,     \* downloadSingleFile: argv.url and argv.out (<<>> when absent)
  sId,            \* downloadSingleFile: id
  eUrl, eId, ePc, \* extractId on its own: argument, result, position
  dSt,            \* downloadLoomVideo: position
  dUrl, dOut,     \* downloadLoomVideo: url and outputPath
  dRan,           \* downloadLoomVideo: history, the methods started
  dCodes,         \* downloadLoomVideo: history, how the methods ended
  dYt,            \* downloadLoomVideo: ytDlpAvailable
  ssSt,           \* downloadWithSeparateStreams: position
  ssOut,          \* downloadWithSeparateStreams: outputPath
  ssRan,          \* downloadWithSeparateStreams: history, the steps started
  ssCodes,        \* downloadWithSeparateStreams: history, the exit codes
  files           \* the paths the tools have written and not removed

batchVars == <<list, logFile, logReadable, poolLimit, pc, downloadedSet, urls, i, ret,
               executing, racing, mq, task, started, awaiting, appended, log0>>
backoffVars == <<bN, bD, bFn, bSt, bRetries, bDelay, bAttempts, bWaits,
                 bErrs, bResult, bSucc>>
fetchVars == <<page, fSt, fGet, fRan, fExtracted, fUrl, fErr, fApiCalls>>
singleVars == <<sPc, sAttempts, sUrl, sOut, sId>>
mainVars == <<aUrl, aList, aTimeout, mPc, mNet, mTools, mFfmpeg, mYtDlp,
              mExit>>
extractVars == <<eUrl, eId, ePc>>
downloadVars == <<dSt, dUrl, dOut, dRan, dCodes, dYt>>
streamsVars == <<ssSt, ssOut, ssRan, ssCodes>>
toolVars == <<extractVars, downloadVars, streamsVars, files>>
vars == <<batchVars, backoffVars, fetchVars, singleVars, mainVars, toolVars>>

\* ------------------------------------------------------------- helpers
\* String.prototype.trim on a list line.
Trim(line) == IF line \in BlankLines THEN "" ELSE line

\* Array.prototype.indexOf, 1-based; 0 stands for JavaScript's -1.
IndexOf(s, x) ==
  IF x \in Range(s) THEN CHOOSE k \in DOMAIN s : s[k] = x /\ \A j \in 1..(k-1) : s[j] # x
  ELSE 0

\* Array.prototype.splice(idx, 1); an index of -1 removes the last element.
Splice(s, idx) ==
  IF s = <<>> THEN s
  ELSE LET k == IF idx = 0 THEN Len(s) ELSE idx
       IN  SubSeq(s, 1, k-1) \o SubSeq(s, k+1, Len(s))

\* -------------------------------------------------------------- backoff
\* Variants of backoffRetry: one retry too many; no ceiling on the delay.
backoffRetryOneMore(retries, delay) == retries >= 1 /\ delay <= MaxDelay
backoffRetryNoCeiling(retries, delay) == retries > 1

\* backoff (line 215): after a failed fn(), retry iff this holds.
backoffRetry(retries, delay) == retries > 1 /\ delay <= MaxDelay

\* backoff (line 215): the delay handed to the recursive call.
backoffNextDelay(delay) == delay * 2

\* Variant of backoffFulfilled: a success is followed by the wait and the
\* next attempt, like a failure.
backoffFulfilledRetries == "wait"

\* backoff (line 215): fn().catch(...) has no handler for a fulfilled fn(), so
\* the promise backoff returned is fulfilled with it.
backoffFulfilled == "resolved"

\* Variant of backoffReject: the error is wrapped in a new one.
backoffRejectWrapped(err) == "wrapped"

\* backoff (line 215): Promise.reject(err), err being the error caught from
\* this call's fn().
backoffReject(err) == err

\* --------------------------------------------------------- the dedup log
\* Variant of readDownloadedLogCatch: the error of readFile is thrown on.
readDownloadedLogCatchRethrow == [threw |-> TRUE, set |-> {}]

\* readDownloadedLog (lines 338-340): the catch returns an empty Set.
readDownloadedLogCatch == [threw |-> FALSE, set |-> {}]

\* readDownloadedLog (lines 334-341): data.split(/\r?\n/) as a Set.  Every
\* entry was written as `${url}\n`, so the split always yields a final "".
\* When readFile rejects (no such file, no permission), the catch answers.
readDownloadedLog(file, readable) ==
  IF readable THEN [threw |-> FALSE, set |-> Range(file) \cup {""}]
  ELSE readDownloadedLogCatch

\* Variants of appendToLogFile: writeFile in place of appendFile; no write.
appendToLogFileOverwrite(file, url) == <<url>>
appendToLogFileSkipped(file, url) == file

\* appendToLogFile (lines 330-332): fsPromises.appendFile of one line.
appendToLogFile(file, url) == Append(file, url)

\* s without the later occurrences of its elements
RECURSIVE DropRepeats(_)
DropRepeats(s) ==
  IF s = <<>> THEN <<>>
  ELSE LET r == DropRepeats(SubSeq(s, 1, Len(s) - 1))
       IN  IF s[Len(s)] \in Range(r) THEN r ELSE Append(r, s[Len(s)])

\* Variant of filterUrls: a URL is kept once.
filterUrlsOnce(lines, downloaded) ==
  DropRepeats(SelectSeq(lines,
                LAMBDA url : Trim(url) # "" /\ url \notin downloaded))

\* Variant of filterUrls: the log is not consulted.
filterUrlsNoLog(lines, downloaded) ==
  SelectSeq(lines, LAMBDA url : Trim(url) # "")

\* downloadFromList (line 454): the filter on the list's lines.
filterUrls(lines, downloaded) ==
  SelectSeq(lines, LAMBDA url : Trim(url) # "" /\ url \notin downloaded)

\* ------------------------------------------------------------ asyncPool
\* Variant of poolLimits: the pool tracks its tasks whatever the length.
poolLimitsAlways(limit, array) == TRUE

\* asyncPool (line 438): whether the pool limits at all.
poolLimits(limit, array) == limit <= Len(array)

\* Variant of poolFull: off by one.
poolFullOffByOne(exec, limit) == Len(exec) > limit

\* asyncPool (line 441): whether to await before the next item.
poolFull(exec, limit) == Len(exec) >= limit

\* Variant of PromiseRace: Promise.all, the pool drains before it refills.
PromiseRaceAsAll(snapshot, exec) == \A t \in snapshot : t \notin Range(exec)

\* asyncPool (line 442): Promise.race over the promises e of `snapshot`
\* settles once one of them has: e resolves when its task has left executing.
PromiseRace(snapshot, exec) == \E t \in snapshot : t \notin Range(exec)

\* ---------------------------------------------------------- downloadTask
\* Variant of downloadTaskCatch: the error is thrown on.
downloadTaskRethrow == "rejected"

\* downloadTask (lines 470-472): the catch block swallows the error, so the
\* async function returns and its promise is fulfilled.
downloadTaskCatch == "failed"

NewTask == [st |-> "pending", retries |-> 0, delay |-> 0, timer |-> 0]

\* A task has finished when downloadTask has returned or thrown.
Finished(t) == task[t].st \in {"done", "failed", "rejected"}
\* A task is in flight from the call of iteratorFn until it has finished.
InFlight(t) == task[t].st \in {"fetch", "attempt", "wait", "append", "cooldown"}
NumInFlight == Cardinality({t \in DOMAIN task : InFlight(t)})

\* Variant of PromiseAll: Promise.race, the first p to settle settles it.
PromiseAllAsRace(ps) == \E t \in Range(ps) : Finished(t)

\* asyncPool (line 446): Promise.all over the promises p of `ps` settles
\* once every p is fulfilled, or as soon as one is rejected.
PromiseAll(ps) ==
  \/ \A t \in Range(ps) : Finished(t)
  \/ \E t \in Range(ps) : task[t].st = "rejected"

\* The event loop is idle: no synchronous code, no promise job left.
Quiescent == pc \in {"race", "all"} /\ mq = <<>>

\* ------------------------------------------------------------ initial states
BackoffOff ==
  /\ bN = 0 /\ bD = 0 /\ bFn = "off" /\ bSt = "off" /\ bRetries = 0 /\ bDelay = 0
  /\ bAttempts = 0 /\ bWaits = <<>> /\ bErrs = <<>> /\ bResult = "none"
  /\ bSucc = 0

BatchOff ==
  /\ list = <<>> /\ logFile = <<>> /\ log0 = <<>> /\ poolLimit = 1
  /\ logReadable = TRUE
  /\ pc = "off" /\ downloadedSet = {} /\ urls = <<>> /\ i = 1
  /\ ret = <<>> /\ executing = <<>> /\ racing = {} /\ mq = <<>>
  /\ task = <<>> /\ started = <<>> /\ awaiting = <<>> /\ appended = <<>>

FetchOff ==
  /\ page = <<>> /\ fSt = "off" /\ fGet = "off" /\ fRan = FALSE
  /\ fExtracted = <<>> /\ fUrl = <<>> /\ fErr = "none" /\ fApiCalls = 0

SingleOff ==
  /\ sPc = "off" /\ sAttempts = 0 /\ sUrl = <<>> /\ sOut = <<>> /\ sId = <<>>

MainOff ==
  /\ aUrl = <<>> /\ aList = <<>> /\ aTimeout = <<>> /\ mPc = "off"
  /\ mNet = 0 /\ mTools = 0 /\ mFfmpeg = FALSE /\ mYtDlp = FALSE
  /\ mExit = <<>>

ExtractOff == eUrl = <<>> /\ eId = <<>> /\ ePc = "off"

DownloadOff ==
  /\ dSt = "off" /\ dUrl = <<>> /\ dOut = <<>> /\ dRan = <<>>
  /\ dCodes = <<>> /\ dYt = "unknown"

StreamsOff == ssSt = "off" /\ ssOut = <<>> /\ ssRan = <<>> /\ ssCodes = <<>>

ToolsOff == ExtractOff /\ DownloadOff /\ StreamsOff /\ files = {}

\* main has reached downloadFromList (line 1093): the list file and the log
\* are whatever the user has, nothing of asyncPool exists yet.  asyncPool
\* takes its limit as a parameter: the model runs it with the limit of
\* line 476 and with every smaller limit up to MaxLimit.
Init ==
  /\ list \in SeqsUpTo(Lines, MaxList)
  /\ logFile \in SeqsUpTo(Urls, MaxLog)
  /\ log0 = logFile
  /\ logReadable = TRUE
  /\ poolLimit \in (1..MaxLimit) \cup {concurrencyLimit}
  /\ pc = "start"
  /\ downloadedSet = {} /\ urls = <<>> /\ i = 1
  /\ ret = <<>> /\ executing = <<>> /\ racing = {} /\ mq = <<>>
  /\ task = <<>> /\ started = <<>> /\ awaiting = <<>> /\ appended = <<>>
  /\ BackoffOff /\ FetchOff /\ SingleOff /\ MainOff /\ ToolsOff

\* ------------------------------------------------- downloadFromList, asyncPool
\* downloadFromList (lines 450-455, 477): read the log, read and filter the
\* list, enter asyncPool.
downloadFromList ==
  /\ pc = "start"
  /\ LET read == readDownloadedLog(logFile, logReadable)
     IN  IF read.threw
         THEN pc' = "raised" /\ UNCHANGED <<downloadedSet, urls, task>>
         ELSE /\ downloadedSet' = read.set
              /\ urls' = filterUrls(list, downloadedSet')
              /\ task' = [t \in 1..Len(urls') |-> NewTask]
              /\ pc' = "loop"
  /\ UNCHANGED <<list, logReadable, logFile, poolLimit, i, ret, executing, racing, mq,
                 started, awaiting, appended, log0, backoffVars,
                 fetchVars, singleVars, mainVars, toolVars>>

\* asyncPool (lines 434-444): one pass of the for loop.  The call of
\* iteratorFn is queued as a promise job (Promise.resolve().then).
PoolNext ==
  /\ pc = "loop" /\ i <= Len(urls)
  /\ ret' = Append(ret, i)
  /\ mq' = Append(mq, [job |-> "start", t |-> i])
  /\ i' = i + 1
  /\ IF poolLimits(poolLimit, urls)
     THEN /\ executing' = Append(executing, i)
          /\ IF poolFull(executing', poolLimit)
             THEN /\ racing' = Range(executing')
                  /\ pc' = IF \E t \in racing' : task[t].st = "rejected"
                           THEN "raised" ELSE "race"
             ELSE UNCHANGED <<racing, pc>>
     ELSE UNCHANGED <<executing, racing, pc>>
  /\ UNCHANGED <<list, logReadable, logFile, poolLimit, downloadedSet, urls, task,
                 started, awaiting, appended, log0, backoffVars,
                 fetchVars, singleVars, mainVars, toolVars>>

\* asyncPool (line 446): the loop is over, return Promise.all(ret).
PoolReturn ==
  /\ pc = "loop" /\ i > Len(urls)
  /\ pc' = "all"
  /\ UNCHANGED <<list, logReadable, logFile, poolLimit, downloadedSet, urls, i, ret,
                 executing, racing, mq, task, started, awaiting, appended,
                 log0, backoffVars,
                 fetchVars, singleVars, mainVars, toolVars>>

\* Promise.all(ret) (line 446) and the await of line 477: every p has
\* settled; a rejected p rejects the batch.
PoolAll ==
  /\ pc = "all" /\ mq = <<>>
  /\ PromiseAll(ret)
  /\ pc' = IF \E t \in DOMAIN task : task[t].st = "rejected"
           THEN "raised" ELSE "done"
  /\ UNCHANGED <<list, logReadable, logFile, poolLimit, downloadedSet, urls, i, ret,
                 executing, racing, mq, task, started, awaiting, appended,
                 log0, backoffVars,
                 fetchVars, singleVars, mainVars, toolVars>>

\* ------------------------------------------------------------ promise jobs
JobReady(kind) ==
  /\ pc \in {"race", "all", "resuming"}
  /\ mq # <<>> /\ Head(mq).job = kind

\* The job queued at line 435: iteratorFn(item) is called; downloadTask runs
\* extractId and suspends in fetchLoomDownloadUrl (lines 459-461).
JobStart ==
  /\ JobReady("start")
  /\ LET t == Head(mq).t
     IN  /\ task' = [task EXCEPT ![t].st = "fetch"]
         /\ started' = Append(started, t)
  /\ mq' = Tail(mq)
  /\ UNCHANGED <<list, logReadable, logFile, poolLimit, pc, downloadedSet, urls, i, ret,
                 executing, racing, awaiting, appended, log0, backoffVars,
                 fetchVars, singleVars, mainVars, toolVars>>

\* p has settled.  When e exists (line 439) its handler removes e from
\* executing; a pending Promise.race (line 442) then settles and the loop's
\* continuation is queued.  A rejected p rejects e and the race with it.
JobSettle ==
  /\ JobReady("settle")
  /\ LET t == Head(mq).t
         rejected == task[t].st = "rejected"
         exec2 == IF poolLimits(poolLimit, urls) /\ ~rejected
                  THEN Splice(executing, IndexOf(executing, t))
                  ELSE executing
         raise == rejected /\ pc = "race" /\ t \in racing
         resume == ~rejected /\ pc = "race" /\ PromiseRace(racing, exec2)
     IN  /\ executing' = exec2
         /\ pc' = IF raise THEN "raised" ELSE IF resume THEN "resuming" ELSE pc
         /\ mq' = IF resume THEN Append(Tail(mq), [job |-> "resume", t |-> 0])
                  ELSE Tail(mq)
  /\ UNCHANGED <<list, logReadable, logFile, poolLimit, downloadedSet, urls, i, ret,
                 racing, task, started, awaiting, appended, log0, backoffVars,
                 fetchVars, singleVars, mainVars, toolVars>>

\* The continuation of `await Promise.race(executing)` (line 442).
JobResume ==
  /\ JobReady("resume")
  /\ pc' = "loop"
  /\ mq' = Tail(mq)
  /\ UNCHANGED <<list, logReadable, logFile, poolLimit, downloadedSet, urls, i, ret,
                 executing, racing, task, started, awaiting, appended, log0,
                 backoffVars,
                 fetchVars, singleVars, mainVars, toolVars>>

\* ------------------------------------------------------------ downloadTask
\* downloadTask returns or throws: its promise p settles, which queues the
\* job of p's reactions.
Finish(t, outcome) ==
  /\ task' = [task EXCEPT ![t] = [NewTask EXCEPT !.st = outcome]]
  /\ mq' = Append(mq, [job |-> "settle", t |-> t])

\* fetchLoomDownloadUrl settles (line 461): with a URL, backoff(5, ...) makes
\* its first attempt (line 466); with an error the catch block runs.
FetchDone(t) ==
  /\ Quiescent /\ task[t].st = "fetch"
  /\ \E ok \in BOOLEAN :
       IF ok
       THEN /\ task' = [task EXCEPT ![t] = [st |-> "attempt", retries |-> TaskRetries,
                                            delay |-> DefaultDelay, timer |-> 0]]
            /\ mq' = mq
       ELSE Finish(t, downloadTaskCatch)
  /\ UNCHANGED <<list, logReadable, logFile, poolLimit, pc, downloadedSet, urls, i, ret,
                 executing, racing, started, awaiting, appended, log0, backoffVars,
                 fetchVars, singleVars, mainVars, toolVars>>

\* downloadLoomVideo settles (lines 215, 466-467).  Success resolves backoff
\* and appendToLogFile is called; failure waits and retries, or rejects.
AttemptDone(t) ==
  /\ Quiescent /\ task[t].st = "attempt"
  /\ \E ok \in BOOLEAN :
       IF ok
       THEN /\ task' = [task EXCEPT ![t] = [NewTask EXCEPT !.st = "append"]]
            /\ awaiting' = Append(awaiting, t)
            /\ mq' = mq
       ELSE /\ awaiting' = awaiting
            /\ IF backoffRetry(task[t].retries, task[t].delay)
               THEN /\ task' = [task EXCEPT ![t].st = "wait",
                                            ![t].timer = task[t].delay]
                    /\ mq' = mq
               ELSE Finish(t, downloadTaskCatch)
  /\ UNCHANGED <<list, logReadable, logFile, poolLimit, pc, downloadedSet, urls, i, ret,
                 executing, racing, started, appended, log0, backoffVars,
                 fetchVars, singleVars, mainVars, toolVars>>

\* The setTimeout of backoff fires (line 215): the recursive call attempts.
BackoffTimer(t) ==
  /\ Quiescent /\ task[t].st = "wait"
  /\ task' = [task EXCEPT ![t] = [st |-> "attempt", retries |-> task[t].retries - 1,
                                  delay |-> backoffNextDelay(task[t].delay),
                                  timer |-> 0]]
  /\ UNCHANGED <<list, logReadable, logFile, poolLimit, pc, downloadedSet, urls, i, ret,
                 executing, racing, mq, started, awaiting, appended, log0,
                 backoffVars,
                 fetchVars, singleVars, mainVars, toolVars>>

\* fsPromises.appendFile completes (lines 331, 467-469): the line is in the
\* file and the task starts its cooldown.
AppendDone(t) ==
  /\ Quiescent /\ task[t].st = "append"
  /\ logFile' = appendToLogFile(logFile, urls[t])
  /\ appended' = Append(appended, t)
  /\ awaiting' = SelectSeq(awaiting, LAMBDA u : u # t)
  /\ task' = [task EXCEPT ![t].st = "cooldown", ![t].timer = CooldownMs]
  /\ UNCHANGED <<list, logReadable, poolLimit, pc, downloadedSet, urls, i, ret, executing,
                 racing, mq, started, log0, backoffVars,
                 fetchVars, singleVars, mainVars, toolVars>>

\* The cooldown timer fires (line 469): downloadTask returns.
CooldownDone(t) ==
  /\ Quiescent /\ task[t].st = "cooldown"
  /\ Finish(t, "done")
  /\ UNCHANGED <<list, logReadable, logFile, poolLimit, pc, downloadedSet, urls, i, ret,
                 executing, racing, started, awaiting, appended, log0, backoffVars,
                 fetchVars, singleVars, mainVars, toolVars>>

Next ==
  \/ downloadFromList
  \/ PoolNext
  \/ PoolReturn
  \/ PoolAll
  \/ JobStart
  \/ JobSettle
  \/ JobResume
  \/ \E t \in DOMAIN task : FetchDone(t)
  \/ \E t \in DOMAIN task : AttemptDone(t)
  \/ \E t \in DOMAIN task : BackoffTimer(t)
  \/ \E t \in DOMAIN task : AppendDone(t)
  \/ \E t \in DOMAIN task : CooldownDone(t)

Spec == Init /\ [][Next]_vars

\* The event loop runs every queued promise job and continuation.
EventLoopStep ==
  downloadFromList \/ PoolNext \/ PoolReturn \/ PoolAll
    \/ JobStart \/ JobSettle \/ JobResume

\* A page fetch, a download attempt, an append or a timer completes.
IoStep ==
  \E t \in DOMAIN task :
    FetchDone(t) \/ AttemptDone(t) \/ BackoffTimer(t)
      \/ AppendDone(t) \/ CooldownDone(t)

\* The batch when every page fetch, download attempt and wait terminates:
\* the event loop does not stall and each pending operation completes.
SpecLive == Spec /\ WF_vars(EventLoopStep) /\ WF_vars(IoStep)

\* ------------------------------------------------------- backoff on its own
\* backoff(bN, fn, bD) has been called and fn() is running; bFn says whether
\* fn rejects every time or settles either way.
InitBackoff ==
  /\ BatchOff /\ FetchOff /\ SingleOff /\ MainOff /\ ToolsOff
  /\ bN \in 1..MaxRetries
  /\ bD \in Delays
  /\ bFn \in {"fails", "any"}
  /\ bSt = "attempt"
  /\ bRetries = bN /\ bDelay = bD
  /\ bAttempts = 1 /\ bWaits = <<>> /\ bErrs = <<>> /\ bResult = "none"
  /\ bSucc = 0

\* fn() settles (line 215).
BAttemptDone ==
  /\ bSt = "attempt"
  /\ \E ok \in (IF bFn = "fails" THEN {FALSE} ELSE BOOLEAN), err \in Errs :
       IF ok
       THEN /\ bSt' = backoffFulfilled
            /\ bSucc' = bSucc + 1
            /\ UNCHANGED <<bWaits, bErrs, bResult>>
       ELSE /\ bErrs' = Append(bErrs, err)
            /\ bSucc' = bSucc
            /\ IF backoffRetry(bRetries, bDelay)
               THEN /\ bSt' = "wait"
                    /\ bWaits' = Append(bWaits, bDelay)
                    /\ bResult' = bResult
               ELSE /\ bSt' = "rejected"
                    /\ bWaits' = bWaits
                    /\ bResult' = backoffReject(err)
  /\ UNCHANGED <<bN, bD, bFn, bRetries, bDelay, bAttempts, batchVars,
                 fetchVars, singleVars, mainVars, toolVars>>

\* The timer fires (line 215): backoff(retries - 1, fn, delay * 2) calls fn().
BTimer ==
  /\ bSt = "wait"
  /\ bSt' = "attempt"
  /\ bRetries' = bRetries - 1
  /\ bDelay' = backoffNextDelay(bDelay)
  /\ bAttempts' = bAttempts + 1
  /\ UNCHANGED <<bN, bD, bFn, bWaits, bErrs, bResult, bSucc, batchVars,
                 fetchVars, singleVars, mainVars, toolVars>>

NextBackoff == BAttemptDone \/ BTimer

SpecBackoff == InitBackoff /\ [][NextBackoff]_vars

\* ================================================================ properties
IsPrefix(s, t) == Len(s) <= Len(t) /\ SubSeq(t, 1, Len(s)) = s
NoRepeat(s) == \A j, k \in DOMAIN s : j # k => s[j] # s[k]
\* The URLs of a sequence of tasks.
UrlsOf(ts) == [k \in DOMAIN ts |-> urls[ts[k]]]
\* The lines of the list that are not blank and not in the log before the run.
Eligible == SelectSeq(list, LAMBDA l : l \notin BlankLines /\ l \notin Range(log0))
\* The lines the run has added to the log.
Added == SubSeq(logFile, Len(log0) + 1, Len(logFile))

\* C1: in every reachable state of a batch run the number of tasks that have
\* started and not yet finished (cooldown included) is at most the limit.
C1_InFlightAtMostLimit == NumInFlight <= poolLimit

\* C1 witness: the pool is full with two tasks, one of them in its cooldown,
\* while an earlier task has finished and URLs remain unstarted.
C1_Witness ==
  /\ poolLimit = 2 /\ NumInFlight = 2 /\ Len(urls) > 2
  /\ \E t \in DOMAIN task : task[t].st = "cooldown"
  /\ \E t \in DOMAIN task : Finished(t)

\* C2: a failing task never aborts the batch.  The batch never raises; it
\* can stop only when it has completed; and when it has completed, the URLs
\* of the started tasks are the non-blank list lines absent from the log at
\* the start, each occurrence started exactly once, and every task finished.
C2_FailuresDoNotAbort ==
  /\ pc # "raised"
  /\ NoRepeat(started)
  /\ (~ ENABLED Next) => pc = "done"
  /\ pc = "done" => /\ UrlsOf(started) = Eligible
                    /\ \A t \in DOMAIN task : Finished(t)

\* C2 witness: a completed batch in which the first task failed and a later
\* task was started and succeeded.
C2_Witness ==
  /\ pc = "done" /\ Len(urls) >= 2
  /\ task[1].st = "failed"
  /\ \E t \in DOMAIN task : t > 1 /\ task[t].st = "done"

C5_AppendOnly == [][IsPrefix(logFile, logFile')]_vars

\* C5 witness: two concurrent tasks have appended after an initial entry,
\* the later task first.
C5_Witness ==
  /\ Len(log0) = 1 /\ Len(appended) = 2
  /\ appended[1] > appended[2]

\* C6: the pool is a rolling window: whenever the event loop is idle and
\* URLs remain unstarted, the pool is full; a freed slot has been refilled
\* before the loop waits again.
C6_RollingWindow ==
  (Quiescent /\ i <= Len(urls)) => NumInFlight = poolLimit

\* C6 witness: limit 2, task 2 finished first and task 3 was started in its
\* slot while task 1 is still in flight.
C6_Witness ==
  /\ poolLimit = 2 /\ Len(urls) = 3 /\ Quiescent
  /\ Finished(2) /\ InFlight(1) /\ InFlight(3)

\* C7: tasks start in input-list order, and the order of the entries added
\* to the log equals the order in which the downloads succeeded: the task
\* whose line lands is always the earliest success still waiting to land.
C7_StartAndAppendOrder ==
  /\ [](\A k \in DOMAIN started : started[k] = k)
  /\ [][Len(appended') > Len(appended)
          => appended'[Len(appended')] = Head(awaiting)]_vars

Doubling(d, n) == [k \in 1..n |-> d * 2^(k-1)]

\* C9: for an fn that always fails and d*2^(n-2) <= 32000, backoff(n, fn, d)
\* makes exactly n attempts, waits d, 2d, 4d, ... between consecutive
\* attempts and then rejects.
C9_AlwaysFailing ==
  (bFn = "fails" /\ bD * 2^(bN-1) <= 64000) =>
     /\ bSt \in {"attempt", "wait", "rejected"}
     /\ bAttempts <= bN
     /\ bWaits = Doubling(bD, Len(bWaits))
     /\ bSt = "attempt" => Len(bWaits) = bAttempts - 1
     /\ bSt = "wait" => Len(bWaits) = bAttempts /\ bAttempts < bN
     /\ bSt = "rejected" => bAttempts = bN /\ Len(bWaits) = bN - 1

\* C9 witness: backoff(3, alwaysFailing, 1000) has rejected after 3 attempts
\* and waits of 1000 and 2000 ms.
C9_Witness ==
  /\ bFn = "fails" /\ bN = 3 /\ bD = 1000 /\ bSt = "rejected"
  /\ bAttempts = 3 /\ bWaits = <<1000, 2000>>

\* C10: backoff never waits longer than 32000 ms; a failure at a delay above
\* 32000 ms is propagated at once; from 1000 ms at most 7 attempts are made.
C10_DelayCeiling ==
  /\ \A k \in DOMAIN bWaits : bWaits[k] <= 32000
  /\ bDelay > 32000 => bSt \in {"attempt", "resolved", "rejected"}
  /\ bD = 1000 => bAttempts <= 7

\* C10 witness: from 1000 ms with 8 retries, the 7th attempt failed at a
\* delay of 64000 ms and backoff rejected although retries remain.
C10_Witness ==
  /\ bD = 1000 /\ bN = 8 /\ bSt = "rejected"
  /\ bAttempts = 7 /\ bDelay = 64000 /\ bRetries > 1

\* C11: when backoff gives up it rejects with the error of the last attempt
\* made, unchanged: not wrapped, and not the error of an earlier attempt.
C11_RejectsWithLastError ==
  bSt = "rejected" =>
     /\ Len(bErrs) = bAttempts
     /\ bResult = bErrs[Len(bErrs)]
     /\ bResult \in Errs

\* C11 witness: three attempts failed, the first with e1 and the last with
\* e2, and backoff rejected with e2.
C11_Witness ==
  /\ bSt = "rejected" /\ bAttempts = 3
  /\ bErrs[1] = "e1" /\ bErrs[3] = "e2" /\ bResult = "e2"

\* How often u occurs in s.
Occurrences(s, u) == Cardinality({k \in DOMAIN s : s[k] = u})

\* C27: the log is consulted once, at the start: the tasks are made from the
\* list as filtered then, one for each occurrence of a URL that was not in
\* the log at the start, and each of them is attempted, also when the URL
\* has been appended to the log meanwhile.
C27_DuplicatesAttemptedTwice ==
  /\ pc # "start" =>
       \A u \in Urls \ Range(log0) :
          Occurrences(urls, u) = Occurrences(list, u)
  /\ pc = "done" =>
       \A u \in Urls \ Range(log0) :
          Occurrences(UrlsOf(started), u) = Occurrences(list, u)

\* C27 witness: limit 1, list [A, A], empty log at the start; the first task
\* has appended A and finished, and the second task is fetching the page of A.
C27_Witness ==
  /\ poolLimit = 1 /\ list = <<"A", "A">> /\ log0 = <<>>
  /\ logFile = <<"A">> /\ task[1].st = "done"
  /\ started = <<1, 2>> /\ task[2].st = "fetch"

\* C28: when an attempt succeeds backoff resolves and makes no further
\* attempt: if the k-th attempt is the first to succeed, the k-1 attempts
\* before it failed, k-1 waits of d, 2d, ... were made, and from then on
\* nothing changes.
C28_ResolvesAtFirstSuccess ==
  /\ [](bSucc > 0 =>
          /\ bSt = "resolved" /\ bSucc = 1 /\ bResult = "none"
          /\ Len(bErrs) = bAttempts - 1
          /\ bWaits = Doubling(bD, bAttempts - 1)
          /\ bAttempts <= bN)
  /\ [](bSt = "resolved" => bSucc = 1)
  /\ [][bSucc > 0 => bAttempts' = bAttempts /\ bWaits' = bWaits
                      /\ bSt' = bSt]_vars

\* C28 witness: backoff(5, fn, 1000) has resolved at the third attempt, after
\* two failures and waits of 1000 and 2000 ms.
C28_Witness ==
  /\ bN = 5 /\ bD = 1000 /\ bSt = "resolved" /\ bAttempts = 3
  /\ Len(bErrs) = 2 /\ bWaits = <<1000, 2000>>

\* ------------------------------------------- fetchLoomDownloadUrl: the page
\* A URL is a sequence of the pieces it is written with, <<>> is null, and
\* the length of a URL is the number of its pieces.
Null == <<>>

M3U8Url == <<"https:", "/", "/", "cdn", "/", "v", ".m3u8">>
DashUrl == <<"https:", "/", "/", "cdn", "/", "v.mpd">>

\* An entry of the Apollo state: its key starts with 'RegularUserVideo:' or
\* not, and it holds a M3U8 url, a DASH url, both or neither.
Records == [kind : {"RegularUserVideo", "Other"},
            m3u8 : {Null, M3U8Url}, dash : {Null, DashUrl}]

\* The matches of mp4Regex: two of the same length and a longer one.
Links == { <<"https:", "/", "/", "a", ".mp4">>,
           <<"https:", "/", "/", "b", ".mp4">>,
           <<"https:", "/", "/", "c", ".mp4", "?hd">> }

\* The captures of scriptRegex, downloadRegex and videoRegex, as written in
\* the page: with the slashes escaped, or plain.
RawVideoUrls == { <<"https:", "\\u002F", "\\u002F", "s", "\\u002F", "v">>,
                  <<"blob:", "/", "v">> }
RawDownloadUrls == { <<"https:", "\\u002F", "\\u002F", "s", "\\u002F", "d">> }
RawVideoKeyUrls == { <<"https:", "/", "/", "s", "\\u002F", "k">> }

\* What the page holds, as the five strategies see it: the Apollo state
\* (absent, not parseable, or its entries in key order), the matches of
\* mp4Regex in document order, and the first capture of the three field
\* patterns.
Pages ==
  { pg \in [apollo : {"none", "malformed", "valid"},
            records : SeqsUpTo(Records, MaxRecords),
            mp4 : SeqsUpTo(Links, MaxLinks),
            videoUrl : {Null} \cup RawVideoUrls,
            downloadUrl : {Null} \cup RawDownloadUrls,
            videoKey : {Null} \cup RawVideoKeyUrls] :
      pg.apollo # "valid" => pg.records = <<>> }

\* The answers of the old API (line 182): data.url, no url, or an error.
ApiUrl == <<"https:", "/", "/", "api", "/", "t">>
ApiAnswers == {"url", "nourl", "error"}

\* ------------------------------------- fetchLoomDownloadUrl: the strategies
\* value.replace(/\\u002F/g, '/')
Unescape(v) == [k \in DOMAIN v |-> IF v[k] = "\\u002F" THEN "/" ELSE v[k]]

\* lines 106-130: the loop over the keys of the Apollo state, from entry k:
\* the first video entry that holds a M3U8 url or a DASH url ends the loop,
\* with its M3U8 url if it has one and its DASH url otherwise.
RECURSIVE ApolloScan(_, _)
ApolloScan(records, k) ==
  IF k > Len(records) THEN Null
  ELSE IF records[k].kind # "RegularUserVideo"
       THEN ApolloScan(records, k + 1)
       ELSE IF records[k].m3u8 # Null THEN records[k].m3u8
       ELSE IF records[k].dash # Null THEN records[k].dash
       ELSE ApolloScan(records, k + 1)

\* the catch of lines 131-133 modified to rethrow
apolloParseErrorThrown == [raised |-> TRUE, url |-> Null]

\* lines 131-133: the error of JSON.parse is caught and logged, videoUrl
\* stays null.
apolloParseError == [raised |-> FALSE, url |-> Null]

\* lines 97-134, Method 1
apolloMethod(pg) ==
  IF pg.apollo = "none" THEN [raised |-> FALSE, url |-> Null]
  ELSE IF pg.apollo = "malformed" THEN apolloParseError
  ELSE [raised |-> FALSE, url |-> ApolloScan(pg.records, 1)]

\* the callback of reduce modified to compare with >=
longerOrLater(longest, current) ==
  IF Len(current) >= Len(longest) THEN current ELSE longest

\* line 143: the callback of reduce
longer(longest, current) ==
  IF Len(current) > Len(longest) THEN current ELSE longest

\* Array.prototype.reduce without an initial value, on a non-empty array:
\* the fold of longer over matches[1..k]
RECURSIVE reduceLongest(_, _)
reduceLongest(matches, k) ==
  IF k = 1 THEN matches[1]
  ELSE longer(reduceLongest(matches, k - 1), matches[k])

\* lines 138-146, Method 2
mp4Method(pg) ==
  IF Len(pg.mp4) > 0 THEN reduceLongest(pg.mp4, Len(pg.mp4)) ELSE Null

\* lines 151-155, 160-164 and 169-173, Methods 3 to 5: the capture, with
\* its escaped slashes replaced
fieldMethod(capture) == IF capture # Null THEN Unescape(capture) ELSE Null

\* line 176 modified to throw when videoUrl is null
notFoundThrown == [raised |-> TRUE, url |-> Null]

\* line 176: when no strategy matched, videoUrl is null and control goes on
notFound == [raised |-> FALSE, url |-> Null]

\* the strategies with Method 2 moved before Method 1
extractVideoUrlLinksFirst(pg) ==
  LET m1 == apolloMethod(pg)
  IN  IF mp4Method(pg) # Null THEN [raised |-> FALSE, url |-> mp4Method(pg)]
      ELSE IF m1.raised \/ m1.url # Null THEN m1
      ELSE IF fieldMethod(pg.videoUrl) # Null
           THEN [raised |-> FALSE, url |-> fieldMethod(pg.videoUrl)]
      ELSE IF fieldMethod(pg.downloadUrl) # Null
           THEN [raised |-> FALSE, url |-> fieldMethod(pg.downloadUrl)]
      ELSE IF fieldMethod(pg.videoKey) # Null
           THEN [raised |-> FALSE, url |-> fieldMethod(pg.videoKey)]
      ELSE notFound

\* lines 95-176: the five strategies in order, each run only while videoUrl
\* is still null
extractVideoUrl(pg) ==
  LET m1 == apolloMethod(pg)
  IN  IF m1.raised \/ m1.url # Null THEN m1
      ELSE IF mp4Method(pg) # Null
           THEN [raised |-> FALSE, url |-> mp4Method(pg)]
      ELSE IF fieldMethod(pg.videoUrl) # Null
           THEN [raised |-> FALSE, url |-> fieldMethod(pg.videoUrl)]
      ELSE IF fieldMethod(pg.downloadUrl) # Null
           THEN [raised |-> FALSE, url |-> fieldMethod(pg.downloadUrl)]
      ELSE IF fieldMethod(pg.videoKey) # Null
           THEN [raised |-> FALSE, url |-> fieldMethod(pg.videoKey)]
      ELSE notFound

NoUrlError == "No video download URL found"

\* lines 181-199 with the catch of the old API's error removed
oldApiResultUncaught(answer) ==
  IF answer = "url" THEN [st |-> "resolved", url |-> ApiUrl, err |-> "none"]
  ELSE IF answer = "error"
       THEN [st |-> "rejected", url |-> Null, err |-> "apiError"]
       ELSE [st |-> "rejected", url |-> Null, err |-> NoUrlError]

\* lines 188-199: data.url is the result; without it, and when the request
\* failed (the catch of line 192 only logs), the labeled error is thrown
oldApiResult(answer) ==
  IF answer = "url" THEN [st |-> "resolved", url |-> ApiUrl, err |-> "none"]
  ELSE [st |-> "rejected", url |-> Null, err |-> NoUrlError]

\* ---------------------------------------- fetchLoomDownloadUrl: the steps
\* fetchLoomDownloadUrl has been called and awaits the page (line 75)
FetchCalled ==
  /\ fSt = "get" /\ fGet = "pending" /\ fRan = FALSE
  /\ fExtracted = Null /\ fUrl = Null /\ fErr = "none" /\ fApiCalls = 0

\* line 75: the request for the page settles; an error goes to the catch of
\* line 202, which rethrows it
FetchGetDone ==
  /\ fSt = "get"
  /\ \E ok \in BOOLEAN :
       IF ok THEN /\ fSt' = "write" /\ fGet' = "ok"
                  /\ UNCHANGED fErr
             ELSE /\ fSt' = "rejected" /\ fGet' = "failed"
                  /\ fErr' = "getError"
  /\ UNCHANGED <<page, fRan, fExtracted, fUrl, fApiCalls>>

\* line 88: writing debug-page.html settles; then, in the same turn, the
\* strategies run (lines 95-176) and the old API is asked if they found
\* nothing (line 182)
FetchWriteDone ==
  /\ fSt = "write"
  /\ \E ok \in BOOLEAN :
       IF ~ok
       THEN /\ fSt' = "rejected" /\ fErr' = "writeError"
            /\ UNCHANGED <<fRan, fExtracted, fUrl, fApiCalls>>
       ELSE LET r == extractVideoUrl(page)
            IN  /\ fRan' = TRUE
                /\ fExtracted' = r.url
                /\ fUrl' = r.url
                /\ IF r.raised
                   THEN /\ fSt' = "rejected" /\ fErr' = "extractError"
                        /\ UNCHANGED fApiCalls
                   ELSE IF r.url # Null
                   THEN /\ fSt' = "resolved"
                        /\ UNCHANGED <<fErr, fApiCalls>>
                   ELSE /\ fSt' = "oldapi" /\ fApiCalls' = fApiCalls + 1
                        /\ UNCHANGED fErr
  /\ UNCHANGED <<page, fGet>>

\* line 182: the request to the old API settles (lines 188-201)
FetchApiDone ==
  /\ fSt = "oldapi"
  /\ \E answer \in ApiAnswers :
       LET r == oldApiResult(answer)
       IN  /\ fSt' = r.st /\ fUrl' = r.url /\ fErr' = r.err
  /\ UNCHANGED <<page, fGet, fRan, fExtracted, fApiCalls>>

InitFetch ==
  /\ BatchOff /\ BackoffOff /\ SingleOff /\ MainOff /\ ToolsOff
  /\ page \in Pages
  /\ FetchCalled

NextFetch ==
  \/ FetchGetDone /\ UNCHANGED <<batchVars, backoffVars, singleVars, mainVars, toolVars>>
  \/ FetchWriteDone /\ UNCHANGED <<batchVars, backoffVars, singleVars, mainVars, toolVars>>
  \/ FetchApiDone /\ UNCHANGED <<batchVars, backoffVars, singleVars, mainVars, toolVars>>

SpecFetch == InitFetch /\ [][NextFetch]_vars

\* ------------------------------------------ properties of the strategies
\* Entry k of the Apollo state is a video entry.
IsVideo(pg, k) == pg.records[k].kind = "RegularUserVideo"

\* Strategy n finds something in the page.
Matches(pg, n) ==
  CASE n = 1 -> /\ pg.apollo = "valid"
                /\ \E k \in DOMAIN pg.records :
                     /\ IsVideo(pg, k)
                     /\ pg.records[k].m3u8 # Null \/ pg.records[k].dash # Null
    [] n = 2 -> pg.mp4 # <<>>
    [] n = 3 -> pg.videoUrl # Null
    [] n = 4 -> pg.downloadUrl # Null
    [] n = 5 -> pg.videoKey # Null

\* The first strategy that finds something, 0 when none does.
FirstMatch(pg) ==
  IF \E n \in 1..5 : Matches(pg, n)
  THEN CHOOSE n \in 1..5 : Matches(pg, n) /\ \A m \in 1..(n-1) : ~Matches(pg, m)
  ELSE 0

\* The value u is one that strategy n can produce from the page.
ValueOf(pg, n, u) ==
  CASE n = 0 -> u = Null
    [] n = 1 -> u \in {M3U8Url, DashUrl}
    [] n = 2 -> u \in Range(pg.mp4)
    [] n = 3 -> u = <<"https:", "/", "/", "s", "/", "v">> \/ u = <<"blob:", "/", "v">>
    [] n = 4 -> u = <<"https:", "/", "/", "s", "/", "d">>
    [] n = 5 -> u = <<"https:", "/", "/", "s", "/", "k">>

\* C12: the strategies are tried in the order Apollo state, direct link,
\* videoUrl field, downloadUrl field, video-keyed field, and the result is
\* the value of the first one that finds something, whatever the later ones
\* would find.
C12_FirstMatchWins ==
  fRan => ValueOf(page, FirstMatch(page), fExtracted)

\* C12 witness: every strategy finds something and the result is the M3U8
\* url of the Apollo state.
C12_Witness ==
  /\ fRan /\ \A n \in 1..5 : Matches(page, n)
  /\ fExtracted = M3U8Url /\ fSt = "resolved"

\* C13: when the Apollo state holds a M3U8 url and a DASH url, in one video
\* entry or in two, in any order, the result is the M3U8 url.
C13_M3U8Preferred ==
  ( /\ fRan
    /\ page.apollo = "valid"
    /\ \E k \in DOMAIN page.records :
         IsVideo(page, k) /\ page.records[k].m3u8 # Null
    /\ \E k \in DOMAIN page.records :
         IsVideo(page, k) /\ page.records[k].dash # Null )
  => fExtracted = M3U8Url

\* C14: without an Apollo state and with several direct links, the result
\* is a longest link, and among the longest the first in document order.
C14_LongestLinkFirstOnTie ==
  (fRan /\ page.apollo = "none" /\ Len(page.mp4) >= 2) =>
     \E k \in DOMAIN page.mp4 :
        /\ fExtracted = page.mp4[k]
        /\ \A j \in DOMAIN page.mp4 : Len(page.mp4[j]) <= Len(page.mp4[k])
        /\ \A j \in 1..(k-1) : Len(page.mp4[j]) < Len(page.mp4[k])

\* C14 witness: two different links of the same length, and the result is
\* the first.
C14_Witness ==
  /\ fRan /\ page.apollo = "none" /\ Len(page.mp4) = 2
  /\ page.mp4[1] # page.mp4[2] /\ Len(page.mp4[1]) = Len(page.mp4[2])
  /\ fExtracted = page.mp4[1] /\ fSt = "resolved"

\* C15: when no strategy finds anything, the strategies end with null as
\* their value; they raise no error and control goes on.
C15_NotFoundIsAValue ==
  (fRan /\ FirstMatch(page) = 0) =>
     /\ fExtracted = Null
     /\ fErr # "extractError"
     /\ fSt = "rejected" => fGet = "ok" /\ fApiCalls > 0

\* C15 witness: an Apollo state that parses but holds no video url, nothing
\* else in the page, and the function is past the strategies, not rejected.
C15_Witness ==
  /\ fRan /\ FirstMatch(page) = 0 /\ page.apollo = "valid"
  /\ Len(page.records) = 2
  /\ fExtracted = Null /\ fSt = "oldapi" /\ fErr = "none"

\* C16: an Apollo state that is not valid JSON raises no error: the later
\* strategies run, and the result is the value of the first of them that
\* finds something.
C16_MalformedStateIgnored ==
  (fRan /\ page.apollo = "malformed") =>
     /\ fErr # "extractError"
     /\ FirstMatch(page) # 1
     /\ ValueOf(page, FirstMatch(page), fExtracted)
     /\ FirstMatch(page) # 0 => fSt = "resolved" /\ fUrl = fExtracted

\* C16 witness: the Apollo state does not parse, there is no direct link,
\* and the result is the unescaped videoUrl field.
C16_Witness ==
  /\ fRan /\ page.apollo = "malformed" /\ page.mp4 = <<>>
  /\ page.videoUrl = <<"https:", "\\u002F", "\\u002F", "s", "\\u002F", "v">>
  /\ fExtracted = <<"https:", "/", "/", "s", "/", "v">> /\ fSt = "resolved"

\* C17: when no strategy finds anything, the old API is asked exactly once;
\* a url it supplies is the result, and otherwise the function fails with
\* the error labeled 'No video download URL found'.
C17_FallbackOnce ==
  (fRan /\ FirstMatch(page) = 0) =>
     /\ fApiCalls = 1
     /\ fSt \in {"oldapi", "resolved", "rejected"}
     /\ fSt = "resolved" => fUrl = ApiUrl
     /\ fSt = "rejected" => fErr = NoUrlError /\ fUrl = Null

\* C17 witness: nothing in the page, one request to the old API, and the
\* function failed with the labeled error.
C17_Witness ==
  /\ fRan /\ FirstMatch(page) = 0 /\ fApiCalls = 1
  /\ fSt = "rejected" /\ fErr = NoUrlError

\* ---------------------------------------------------------------- extractId
\* The pieces a share URL is written with: the two separators extractId
\* splits at, and text that holds neither.
UrlPieces == {"/", "?", "abc123", "t=5"}

ExampleUrl == <<"https:", "/", "/", "example.com", "/", "share", "/",
                "abc123", "?", "t=5">>

\* The positions of the piece c in s.
Positions(s, c) == {k \in DOMAIN s : s[k] = c}
Least(ks) == CHOOSE k \in ks : \A j \in ks : k <= j
Greatest(ks) == CHOOSE k \in ks : \A j \in ks : j <= k

\* s.split(c)[0]
SplitFirst(s, c) ==
  IF Positions(s, c) = {} THEN s
  ELSE SubSeq(s, 1, Least(Positions(s, c)) - 1)

\* s.split(c).pop()
SplitPop(s, c) ==
  IF Positions(s, c) = {} THEN s
  ELSE SubSeq(s, Greatest(Positions(s, c)) + 1, Len(s))

\* extractId without line 344
extractIdKeepQuery(url) == SplitPop(url, "/")

\* lines 343-346
extractId(url) == SplitPop(SplitFirst(url, "?"), "/")

\* extractId is called with eUrl
InitExtract ==
  /\ BatchOff /\ BackoffOff /\ FetchOff /\ SingleOff /\ MainOff
  /\ DownloadOff /\ StreamsOff /\ files = {}
  /\ eUrl \in SeqsUpTo(UrlPieces, MaxUrlLen) \cup {ExampleUrl}
  /\ eId = <<>> /\ ePc = "call"

\* lines 344-345: extractId returns
ExtractIdReturn ==
  /\ ePc = "call"
  /\ eId' = extractId(eUrl)
  /\ ePc' = "returned"
  /\ UNCHANGED eUrl

NextExtract ==
  ExtractIdReturn
    /\ UNCHANGED <<batchVars, backoffVars, fetchVars, singleVars, mainVars,
                   downloadVars, streamsVars, files>>

SpecExtract == InitExtract /\ [][NextExtract]_vars

\* s ends with r
IsSuffix(r, s) ==
  Len(r) <= Len(s) /\ SubSeq(s, Len(s) - Len(r) + 1, Len(s)) = r

\* C23: extractId returns the last '/'-separated segment of the part of the
\* URL before the first '?': the result holds no '/' and no '?', it ends that
\* part, and it is all of it or is preceded by a '/'; the example URL gives
\* "abc123".
C23_ExtractIdLastSegment ==
  ePc = "returned" =>
    LET base == IF Positions(eUrl, "?") = {} THEN eUrl
                ELSE SubSeq(eUrl, 1, Least(Positions(eUrl, "?")) - 1)
    IN  /\ \A k \in DOMAIN eId : eId[k] \notin {"/", "?"}
        /\ IsSuffix(eId, base)
        /\ Len(eId) = Len(base) \/ base[Len(base) - Len(eId)] = "/"
        /\ eUrl = ExampleUrl => eId = <<"abc123">>

\* C23 witness: extractId has returned "abc123" for the example URL.
C23_Witness ==
  ePc = "returned" /\ eUrl = ExampleUrl /\ eId = <<"abc123">>

\* -------------------------------------------------------------------- paths
\* A path is written with pieces too: directory and file names, "/" between
\* them, and an extension as the last piece.
Exts == {".mp4", ".mkv"}

\* the values of --out, and the names made from an id
OutPaths ==
  LET names == { <<n>> : n \in {"mein-video", "abc123"} }
                 \cup { <<n, x>> : n \in {"mein-video", "abc123"}, x \in Exts }
  IN  names \cup { <<"downloads", "/">> \o n : n \in names }

\* path.dirname(p)
Dirname(p) ==
  IF Positions(p, "/") = {} THEN <<".">>
  ELSE SubSeq(p, 1, Greatest(Positions(p, "/")) - 1)

\* path.basename(p, path.extname(p))
BasenameNoExt(p) ==
  LET name == SplitPop(p, "/")
  IN  IF Len(name) > 1 /\ name[Len(name)] \in Exts
      THEN SubSeq(name, 1, Len(name) - 1) ELSE name

\* path.join(dir, name)
Join(dir, name) == IF dir = <<".">> THEN name ELSE dir \o <<"/">> \o name

\* ------------------------------------------------------- downloadLoomVideo
\* The URLs fetchLoomDownloadUrl can return.
DownloadUrls == {M3U8Url, DashUrl, ApiUrl} \cup Links

\* line 239 without the test: every URL goes to the direct transfer
fallbackAlwaysDirect(url) == "direct"

\* line 239: url.includes('.m3u8') chooses ffmpeg, anything else the direct
\* transfer
fallbackMethod(url) ==
  IF \E k \in DOMAIN url : url[k] = ".m3u8" THEN "ffmpeg" ELSE "direct"

\* lines 238-285: the fallback method starts; the direct transfer opens its
\* output file (line 285)
StartFallback(url, out) ==
  /\ dSt' = fallbackMethod(url)
  /\ dRan' = Append(dRan, fallbackMethod(url))
  /\ files' = IF fallbackMethod(url) = "direct" THEN files \cup {out}
              ELSE files

\* lines 217-226: downloadLoomVideo(url, outputPath) is called; it makes the
\* output directory, which can fail (the catch of line 324 rethrows), and
\* starts checkYtDlpAvailability
DownloadEnter(url, out) ==
  /\ dUrl' = url /\ dOut' = out
  /\ dRan' = <<>> /\ dCodes' = <<>> /\ dYt' = "unknown"
  /\ \E made \in BOOLEAN : dSt' = IF made THEN "ytcheck" ELSE "rejected"

DownloadCalled ==
  /\ dSt = "idle"
  /\ DownloadEnter(dUrl, dOut)
  /\ UNCHANGED files

\* lines 226-239: checkYtDlpAvailability settles; yt-dlp starts if it is
\* available, the fallback method if not
DownloadYtCheckDone ==
  /\ dSt = "ytcheck"
  /\ \E available \in BOOLEAN :
       IF available
       THEN /\ dYt' = "yes" /\ dSt' = "ytdlp"
            /\ dRan' = Append(dRan, "yt-dlp")
            /\ UNCHANGED files
       ELSE /\ dYt' = "no"
            /\ StartFallback(dUrl, dOut)
  /\ UNCHANGED <<dUrl, dOut, dCodes>>

\* lines 230-239: yt-dlp exits; code 0 ends the attempt (line 231), anything
\* else is caught (line 232) and the fallback method starts
DownloadYtDlpDone ==
  /\ dSt = "ytdlp"
  /\ \E ok \in BOOLEAN :
       IF ok THEN /\ dSt' = "resolved"
                  /\ dCodes' = Append(dCodes, "ok")
                  /\ files' = files \cup {dOut}
                  /\ UNCHANGED dRan
             ELSE /\ dCodes' = Append(dCodes, "failed")
                  /\ StartFallback(dUrl, dOut)
  /\ UNCHANGED <<dUrl, dOut, dYt>>

\* lines 269-281: ffmpeg exits; code 0 resolves, anything else rejects
DownloadFfmpegDone ==
  /\ dSt = "ffmpeg"
  /\ \E ok \in BOOLEAN :
       IF ok THEN /\ dSt' = "resolved"
                  /\ dCodes' = Append(dCodes, "ok")
                  /\ files' = files \cup {dOut}
             ELSE /\ dSt' = "rejected"
                  /\ dCodes' = Append(dCodes, "failed")
                  /\ UNCHANGED files
  /\ UNCHANGED <<dUrl, dOut, dRan, dYt>>

\* lines 300-321: the direct transfer ends: status 200 and the file written,
\* another status (the opened file stays), or a request error (the file is
\* unlinked, line 319)
DownloadDirectDone ==
  /\ dSt = "direct"
  /\ \E outcome \in {"ok", "status", "error"} :
       /\ dSt' = IF outcome = "ok" THEN "resolved" ELSE "rejected"
       /\ dCodes' = Append(dCodes, IF outcome = "ok" THEN "ok" ELSE "failed")
       /\ files' = IF outcome = "error" THEN files \ {dOut} ELSE files
  /\ UNCHANGED <<dUrl, dOut, dRan, dYt>>

\* downloadLoomVideo is about to be called
InitDownload ==
  /\ BatchOff /\ BackoffOff /\ FetchOff /\ SingleOff /\ MainOff
  /\ ExtractOff /\ StreamsOff /\ files = {}
  /\ dUrl \in DownloadUrls /\ dOut \in OutPaths
  /\ dSt = "idle" /\ dRan = <<>> /\ dCodes = <<>> /\ dYt = "unknown"

NextDownload ==
  \/ DownloadCalled /\ UNCHANGED <<batchVars, backoffVars, fetchVars,
                         singleVars, mainVars, extractVars, streamsVars>>
  \/ DownloadYtCheckDone /\ UNCHANGED <<batchVars, backoffVars, fetchVars,
                         singleVars, mainVars, extractVars, streamsVars>>
  \/ DownloadYtDlpDone /\ UNCHANGED <<batchVars, backoffVars, fetchVars,
                         singleVars, mainVars, extractVars, streamsVars>>
  \/ DownloadFfmpegDone /\ UNCHANGED <<batchVars, backoffVars, fetchVars,
                         singleVars, mainVars, extractVars, streamsVars>>
  \/ DownloadDirectDone /\ UNCHANGED <<batchVars, backoffVars, fetchVars,
                         singleVars, mainVars, extractVars, streamsVars>>

SpecDownload == InitDownload /\ [][NextDownload]_vars

\* The fallback method the URL calls for.
FallbackFor(url) ==
  IF url = M3U8Url THEN "ffmpeg" ELSE "direct"

ExitCodes == {0, 1, 2}

\* lines 951, 987, 1039 with the test of the exit code taken out
exitedOkAlways(code) == TRUE

\* lines 951, 987, 1039: code === 0
exitedOk(code) == code = 0

\* lines 923-926 and 1006: the three files the steps write
videoOutput(out) ==
  Join(Dirname(out), BasenameNoExt(out) \o <<"_video", ".mp4">>)
audioOutput(out) ==
  Join(Dirname(out), BasenameNoExt(out) \o <<"_audio", ".mp4">>)
combinedOutput(out) ==
  Join(Dirname(out), BasenameNoExt(out) \o <<"_combined", ".mp4">>)

\* lines 917-940: downloadWithSeparateStreams(videoUrl, outputPath) is called
\* and starts the video download
StreamsEnter(out) ==
  /\ ssOut' = out /\ ssSt' = "video"
  /\ ssRan' = <<"video">> /\ ssCodes' = <<>>

StreamsCalled ==
  /\ ssSt = "idle"
  /\ StreamsEnter(ssOut)
  /\ UNCHANGED files

\* lines 950-976: the video download exits; code 0 starts the audio
\* download, anything else rejects (the catch of line 1062 rethrows)
StreamsVideoDone ==
  /\ ssSt = "video"
  /\ \E code \in ExitCodes :
       /\ ssCodes' = Append(ssCodes, code)
       /\ IF exitedOk(code)
          THEN /\ ssSt' = "audio" /\ ssRan' = Append(ssRan, "audio")
               /\ files' = files \cup {videoOutput(ssOut)}
          ELSE ssSt' = "rejected" /\ UNCHANGED <<ssRan, files>>
  /\ UNCHANGED ssOut

\* lines 986-1028: the audio download exits; code 0 starts ffmpeg
StreamsAudioDone ==
  /\ ssSt = "audio"
  /\ \E code \in ExitCodes :
       /\ ssCodes' = Append(ssCodes, code)
       /\ IF exitedOk(code)
          THEN /\ ssSt' = "combine" /\ ssRan' = Append(ssRan, "combine")
               /\ files' = files \cup {audioOutput(ssOut)}
          ELSE ssSt' = "rejected" /\ UNCHANGED <<ssRan, files>>
  /\ UNCHANGED ssOut

\* lines 1038-1060: ffmpeg exits; code 0 resolves, and the two stream files
\* are kept (lines 1043-1047)
StreamsCombineDone ==
  /\ ssSt = "combine"
  /\ \E code \in ExitCodes :
       /\ ssCodes' = Append(ssCodes, code)
       /\ IF exitedOk(code)
          THEN /\ ssSt' = "resolved"
               /\ files' = files \cup {combinedOutput(ssOut)}
          ELSE ssSt' = "rejected" /\ UNCHANGED files
  /\ UNCHANGED <<ssOut, ssRan>>

\* downloadWithSeparateStreams is about to be called
InitStreams ==
  /\ BatchOff /\ BackoffOff /\ FetchOff /\ SingleOff /\ MainOff
  /\ ExtractOff /\ DownloadOff /\ files = {}
  /\ ssOut \in OutPaths
  /\ ssSt = "idle" /\ ssRan = <<>> /\ ssCodes = <<>>

NextStreams ==
  \/ StreamsCalled /\ UNCHANGED <<batchVars, backoffVars, fetchVars,
                         singleVars, mainVars, extractVars, downloadVars>>
  \/ StreamsVideoDone /\ UNCHANGED <<batchVars, backoffVars, fetchVars,
                         singleVars, mainVars, extractVars, downloadVars>>
  \/ StreamsAudioDone /\ UNCHANGED <<batchVars, backoffVars, fetchVars,
                         singleVars, mainVars, extractVars, downloadVars>>
  \/ StreamsCombineDone /\ UNCHANGED <<batchVars, backoffVars, fetchVars,
                         singleVars, mainVars, extractVars, downloadVars>>

SpecStreams == InitStreams /\ [][NextStreams]_vars

\* C26: after a successful separate-streams download the video-only and the
\* audio-only file are gone and the combined file is there.
C26_TempFilesRemoved ==
  ssSt = "resolved" =>
     /\ videoOutput(ssOut) \notin files
     /\ audioOutput(ssOut) \notin files
     /\ combinedOutput(ssOut) \in files

\* C30: the steps start in the order video download, audio download,
\* combination; a step has started only if every step before it exited with
\* code 0; a step that exits with another code fails the operation and no
\* later step starts.
C30_StepsInOrder ==
  ssSt # "off" =>
     /\ ssRan = SubSeq(<<"video", "audio", "combine">>, 1, Len(ssRan))
     /\ \A k \in 1..(Len(ssRan) - 1) : ssCodes[k] = 0
     /\ ssSt \in {"video", "audio", "combine"} =>
          Len(ssCodes) = Len(ssRan) - 1 /\ ssRan[Len(ssRan)] = ssSt
     /\ ssSt = "resolved" =>
          Len(ssRan) = 3 /\ Len(ssCodes) = 3 /\ ssCodes[3] = 0
     /\ ssSt = "rejected" =>
          Len(ssCodes) = Len(ssRan) /\ ssCodes[Len(ssCodes)] # 0
     /\ Len(ssCodes) = Len(ssRan) /\ ssRan # <<>> /\ ssCodes[Len(ssCodes)] # 0
          => ssSt = "rejected"

\* C30 witness: the video download exited with 0, the audio download with 1,
\* the operation has failed and the combination never started.
C30_Witness ==
  /\ ssSt = "rejected" /\ ssRan = <<"video", "audio">> /\ ssCodes = <<0, 1>>
  /\ videoOutput(ssOut) \in files /\ combinedOutput(ssOut) \notin files

\* ------------------------------------------------------ downloadSingleFile
\* The values of --url: a share URL, one with a query, one that ends with a
\* slash.
ShareUrls ==
  LET share == <<"https:", "/", "/", "www.loom.com", "/", "share", "/">>
  IN  { share \o <<"abc123">>, share \o <<"abc123", "?", "t=5">>,
        share \o <<"abc123", "/">> }

\* The pages of a single download: at most one Apollo entry, at most one
\* direct link, no field.
SinglePages ==
  { pg \in Pages : /\ Len(pg.records) <= 1 /\ Len(pg.mp4) <= 1
                   /\ pg.videoUrl = Null /\ pg.downloadUrl = Null
                   /\ pg.videoKey = Null }

\* lines 496 and 511: argv.out || `${id}` and argv.out || `${id}.mp4`
singleFilename(out, id, ext) == IF out # <<>> THEN out ELSE id \o ext

\* line 510: fetchLoomDownloadUrl(id) is called
FetchCall ==
  /\ fSt' = "get" /\ fGet' = "pending" /\ fRan' = FALSE
  /\ fExtracted' = Null /\ fUrl' = Null /\ fErr' = "none" /\ fApiCalls' = 0
  /\ UNCHANGED page

\* line 484: checkYtDlpAvailability settles; with yt-dlp the formats are
\* listed (line 488), without it the URL is extracted manually (line 510)
SingleYtCheckDone ==
  /\ sPc = "ytcheck"
  /\ \E available \in BOOLEAN :
       IF available THEN sPc' = "formats" /\ UNCHANGED fetchVars
                    ELSE sPc' = "fetch" /\ FetchCall
  /\ UNCHANGED <<sAttempts, sUrl, sOut, sId, downloadVars, streamsVars, files>>

\* lines 488-497: listAvailableFormats settles; then
\* downloadWithSeparateStreams(argv.url, filename) is called; a failure is
\* caught at line 502
SingleFormatsDone ==
  /\ sPc = "formats"
  /\ \E ok \in BOOLEAN :
       IF ok THEN /\ sPc' = "separate"
                  /\ StreamsEnter(singleFilename(sOut, sId, <<>>))
                  /\ UNCHANGED fetchVars
             ELSE /\ sPc' = "fetch" /\ FetchCall
                  /\ UNCHANGED streamsVars
  /\ UNCHANGED <<sAttempts, sUrl, sOut, sId, downloadVars, files>>

\* lines 497-510: downloadWithSeparateStreams has settled; success returns
\* (line 500), a failure is caught at line 502
SingleSeparateSettled ==
  /\ sPc = "separate"
  /\ ssSt \in {"resolved", "rejected"}
  /\ IF ssSt = "resolved" THEN sPc' = "done" /\ UNCHANGED fetchVars
                          ELSE sPc' = "fetch" /\ FetchCall
  /\ UNCHANGED <<sAttempts, sUrl, sOut, sId, downloadVars, streamsVars, files>>

\* lines 510-513: fetchLoomDownloadUrl has settled; with a URL
\* downloadLoomVideo is called, once and directly; a rejection goes to the
\* catch of line 514, which rethrows (line 532)
SingleFetchSettled ==
  /\ sPc = "fetch"
  /\ fSt \in {"resolved", "rejected"}
  /\ IF fSt = "resolved"
     THEN /\ sPc' = "download" /\ sAttempts' = sAttempts + 1
          /\ DownloadEnter(fUrl, singleFilename(sOut, sId, <<".mp4">>))
     ELSE /\ sPc' = "failed"
          /\ UNCHANGED <<sAttempts, downloadVars>>
  /\ UNCHANGED <<fetchVars, sUrl, sOut, sId, streamsVars, files>>

\* line 513: downloadLoomVideo has settled; a rejection goes to the catch of
\* line 514, which rethrows (line 532)
SingleDownloadSettled ==
  /\ sPc = "download"
  /\ dSt \in {"resolved", "rejected"}
  /\ sPc' = IF dSt = "resolved" THEN "done" ELSE "failed"
  /\ UNCHANGED <<sAttempts, fetchVars, sUrl, sOut, sId, downloadVars,
                 streamsVars, files>>

\* main has reached downloadSingleFile (line 1095), which has made the id
\* (line 481) and awaits checkYtDlpAvailability (line 484)
InitSingle ==
  /\ BatchOff /\ BackoffOff /\ MainOff
  /\ ExtractOff /\ DownloadOff /\ StreamsOff /\ files = {}
  /\ page \in SinglePages
  /\ fSt = "off" /\ fGet = "off" /\ fRan = FALSE
  /\ fExtracted = Null /\ fUrl = Null /\ fErr = "none" /\ fApiCalls = 0
  /\ sUrl \in ShareUrls
  /\ sOut \in {<<>>, <<"downloads", "/", "mein-video", ".mp4">>}
  /\ sId = extractId(sUrl)
  /\ sPc = "ytcheck" /\ sAttempts = 0

NextSingle ==
  \/ SingleYtCheckDone
       /\ UNCHANGED <<batchVars, backoffVars, mainVars, extractVars>>
  \/ SingleFormatsDone
       /\ UNCHANGED <<batchVars, backoffVars, mainVars, extractVars>>
  \/ StreamsVideoDone
       /\ UNCHANGED <<batchVars, backoffVars, fetchVars, singleVars,
                      mainVars, extractVars, downloadVars>>
  \/ StreamsAudioDone
       /\ UNCHANGED <<batchVars, backoffVars, fetchVars, singleVars,
                      mainVars, extractVars, downloadVars>>
  \/ StreamsCombineDone
       /\ UNCHANGED <<batchVars, backoffVars, fetchVars, singleVars,
                      mainVars, extractVars, downloadVars>>
  \/ SingleSeparateSettled
       /\ UNCHANGED <<batchVars, backoffVars, mainVars, extractVars>>
  \/ FetchGetDone
       /\ UNCHANGED <<batchVars, backoffVars, singleVars, mainVars, toolVars>>
  \/ FetchWriteDone
       /\ UNCHANGED <<batchVars, backoffVars, singleVars, mainVars, toolVars>>
  \/ FetchApiDone
       /\ UNCHANGED <<batchVars, backoffVars, singleVars, mainVars, toolVars>>
  \/ SingleFetchSettled
       /\ UNCHANGED <<batchVars, backoffVars, mainVars, extractVars>>
  \/ DownloadYtCheckDone
       /\ UNCHANGED <<batchVars, backoffVars, fetchVars, singleVars,
                      mainVars, extractVars, streamsVars>>
  \/ DownloadYtDlpDone
       /\ UNCHANGED <<batchVars, backoffVars, fetchVars, singleVars,
                      mainVars, extractVars, streamsVars>>
  \/ DownloadFfmpegDone
       /\ UNCHANGED <<batchVars, backoffVars, fetchVars, singleVars,
                      mainVars, extractVars, streamsVars>>
  \/ DownloadDirectDone
       /\ UNCHANGED <<batchVars, backoffVars, fetchVars, singleVars,
                      mainVars, extractVars, streamsVars>>
  \/ SingleDownloadSettled
       /\ UNCHANGED <<batchVars, backoffVars, mainVars, extractVars>>

SpecSingle == InitSingle /\ [][NextSingle]_vars

\* C18: in single-item mode, when the request for the share page fails, the
\* old API is asked before URL resolution fails.
C18_FallbackAfterPageFailure ==
  (sPc \in {"fetch", "failed"} /\ fGet = "failed" /\ fSt = "rejected") =>
     fApiCalls >= 1

\* C19: in single-item mode a download that fails is retried before the
\* failure is propagated.
C19_SingleDownloadRetried ==
  (sPc = "failed" /\ dSt = "rejected" /\ dRan # <<>>) => sAttempts > 1

\* C24: the id made from the --url value is not empty whenever it is used to
\* fetch the share page or to name an output file.
C24_IdNonEmpty ==
  (fSt # "off" \/ ssSt # "off" \/ dSt # "off") => sId # <<>>

\* C25: with --out P, a successful single download leaves the video at P,
\* whichever method made it.
C25_VideoAtOut ==
  (sPc = "done" /\ sOut # <<>>) => sOut \in files

\* ------------------------------------------------- the command line, main
\* The values of --url and --list: absent, the empty string, or a value.
StringArgs == {<<>>, <<"">>, <<"x">>}
\* The values of --timeout: absent, or a number.
NumberArgs == {<<>>, <<-1>>, <<0>>, <<5000>>}

\* !value, for an option that is undefined when absent
Falsy(value, zero) == value = <<>> \/ value[1] = zero

\* the check of lines 39-50 without the test of line 43
argvCheckNoBoth(url, lst, timeout) ==
  IF Falsy(url, "") /\ Falsy(lst, "") THEN "neither"
  ELSE IF ~Falsy(timeout, 0) /\ timeout[1] < 0 THEN "timeout"
  ELSE "ok"

\* lines 39-50: the check of the arguments, its error or "ok"
argvCheck(url, lst, timeout) ==
  IF Falsy(url, "") /\ Falsy(lst, "") THEN "neither"
  ELSE IF ~Falsy(url, "") /\ ~Falsy(lst, "") THEN "both"
  ELSE IF ~Falsy(timeout, 0) /\ timeout[1] < 0 THEN "timeout"
  ELSE "ok"

\* the test of line 1080 taken out
noToolIgnored(ffmpegAvailable, ytDlpAvailable) == FALSE

\* line 1080: !ffmpegAvailable && !ytDlpAvailable
noTool(ffmpegAvailable, ytDlpAvailable) ==
  ~ffmpegAvailable /\ ~ytDlpAvailable

\* lines 13-53 and 1099: the arguments are parsed when the module is
\* evaluated; a failed check makes yargs print the error and exit; otherwise
\* main is called and sends its connectivity request (lines 1070, 356)
ParseArgs ==
  /\ mPc = "parse"
  /\ IF argvCheck(aUrl, aList, aTimeout) # "ok"
     THEN mPc' = "usage" /\ mExit' = <<ExitFailure>> /\ UNCHANGED mNet
     ELSE mPc' = "net" /\ mNet' = mNet + 1 /\ UNCHANGED mExit
  /\ UNCHANGED <<aUrl, aList, aTimeout, mTools, mFfmpeg, mYtDlp>>

\* lines 356-368: the connectivity request settles; testNetworkConnectivity
\* returns true either way and checkFfmpegAvailability starts (line 1077)
NetDone ==
  /\ mPc = "net"
  /\ \E ok \in BOOLEAN : mPc' = "ffmpeg"
  /\ mTools' = mTools + 1
  /\ UNCHANGED <<aUrl, aList, aTimeout, mNet, mFfmpeg, mYtDlp, mExit>>

\* line 1077: checkFfmpegAvailability settles, checkYtDlpAvailability
\* starts (line 1078)
FfmpegDone ==
  /\ mPc = "ffmpeg"
  /\ \E available \in BOOLEAN : mFfmpeg' = available
  /\ mPc' = "ytdlp"
  /\ mTools' = mTools + 1
  /\ UNCHANGED <<aUrl, aList, aTimeout, mNet, mYtDlp, mExit>>

\* lines 1078-1096: checkYtDlpAvailability settles; without any tool the
\* process exits, otherwise the batch or the single download starts
YtDlpDone ==
  /\ mPc = "ytdlp"
  /\ \E available \in BOOLEAN :
       /\ mYtDlp' = available
       /\ IF noTool(mFfmpeg, available)
          THEN mPc' = "exit" /\ mExit' = <<ExitFailure>>
          ELSE /\ mPc' = IF ~Falsy(aList, "") THEN "downloadFromList"
                         ELSE "downloadSingleFile"
               /\ UNCHANGED mExit
  /\ UNCHANGED <<aUrl, aList, aTimeout, mNet, mTools, mFfmpeg>>

InitMain ==
  /\ BatchOff /\ BackoffOff /\ FetchOff /\ SingleOff /\ ToolsOff
  /\ aUrl \in StringArgs /\ aList \in StringArgs /\ aTimeout \in NumberArgs
  /\ mPc = "parse" /\ mNet = 0 /\ mTools = 0
  /\ mFfmpeg = FALSE /\ mYtDlp = FALSE /\ mExit = <<>>

NextMain ==
  \/ ParseArgs /\ UNCHANGED <<batchVars, backoffVars, fetchVars, singleVars, toolVars>>
  \/ NetDone /\ UNCHANGED <<batchVars, backoffVars, fetchVars, singleVars, toolVars>>
  \/ FfmpegDone /\ UNCHANGED <<batchVars, backoffVars, fetchVars, singleVars, toolVars>>
  \/ YtDlpDone /\ UNCHANGED <<batchVars, backoffVars, fetchVars, singleVars, toolVars>>

SpecMain == InitMain /\ [][NextMain]_vars

\* The option has a value, and not the empty one.
Given(value) == value # <<>> /\ value[1] # ""

C22_NoToolExits ==
  (mPc \notin {"parse", "usage", "net", "ffmpeg", "ytdlp"}
     /\ ~mFfmpeg /\ ~mYtDlp) =>
        /\ mPc = "exit"
        /\ mExit # <<>> /\ mExit[1] # 0

\* C22 witness: valid arguments for a batch, both tool checks said no, and
\* the process has exited with code 1.
C22_Witness ==
  /\ Given(aList) /\ ~Given(aUrl) /\ aTimeout = <<>>
  /\ mTools = 2 /\ ~mFfmpeg /\ ~mYtDlp
  /\ mPc = "exit" /\ mExit = <<1>>

\* ------------------------------------------ the batch with a --timeout
\* main has reached downloadFromList (line 1093) with a list of one or two
\* URLs, an empty log, and any --timeout the argument check accepts.
InitTimeout ==
  /\ list \in {<<"A">>, <<"A", "B">>}
  /\ logFile = <<>> /\ log0 = logFile /\ logReadable = TRUE
  /\ poolLimit \in {1, concurrencyLimit}
  /\ pc = "start"
  /\ downloadedSet = {} /\ urls = <<>> /\ i = 1
  /\ ret = <<>> /\ executing = <<>> /\ racing = {} /\ mq = <<>>
  /\ task = <<>> /\ started = <<>> /\ awaiting = <<>> /\ appended = <<>>
  /\ BackoffOff /\ FetchOff /\ SingleOff /\ ToolsOff
  /\ aUrl = <<>> /\ aList = <<"x">>
  /\ aTimeout \in {t \in NumberArgs : argvCheck(aUrl, aList, t) = "ok"}
  /\ mPc = "downloadFromList" /\ mNet = 1 /\ mTools = 2
  /\ mFfmpeg = TRUE /\ mYtDlp = TRUE /\ mExit = <<>>

SpecTimeout == InitTimeout /\ [][Next]_vars

\* C21: with --timeout T the wait after a successful task is T ms, and
\* 5000 ms only when --timeout is not given.
C21_TimeoutIsTheWait ==
  \A t \in DOMAIN task :
     task[t].st = "cooldown" =>
        task[t].timer = IF aTimeout = <<>> THEN 5000 ELSE aTimeout[1]

\* C33: with fewer eligible URLs than the limit the pool does not limit: no
\* task is tracked in executing and the loop never awaits a race, so every
\* task has started before any page fetch completes; the number in flight is
\* at most the number of URLs; and the batch stops only completed, with every
\* task finished.
C33_FewerThanLimit ==
  (pc # "start" /\ Len(urls) < poolLimit) =>
     /\ executing = <<>> /\ racing = {}
     /\ pc \in {"loop", "all", "done"}
     /\ NumInFlight <= Len(urls)
     /\ (\E t \in DOMAIN task : task[t].st \notin {"pending", "fetch"})
           => \A t \in DOMAIN task : task[t].st # "pending"
     /\ pc = "done" => \A t \in DOMAIN task : Finished(t)
     /\ (~ ENABLED Next) => pc = "done"

\* C33 witness: limit 5 and three URLs, all three fetching their page at the
\* same time while asyncPool waits in Promise.all.
C33_Witness ==
  /\ poolLimit = concurrencyLimit /\ Len(urls) = 3 /\ pc = "all"
  /\ \A t \in DOMAIN task : task[t].st = "fetch"
  /\ NumInFlight = 3

\* -------------------------------------- the batch without a readable log
\* main has reached downloadFromList (line 1093) and downloaded.log is
\* missing (no lines) or exists and cannot be read (its lines are what an
\* earlier run wrote).
InitNoLog ==
  /\ list \in SeqsUpTo(Lines, 2)
  /\ logFile \in {<<>>, <<"A">>} /\ log0 = logFile /\ logReadable = FALSE
  /\ poolLimit \in {1, concurrencyLimit}
  /\ pc = "start"
  /\ downloadedSet = {} /\ urls = <<>> /\ i = 1
  /\ ret = <<>> /\ executing = <<>> /\ racing = {} /\ mq = <<>>
  /\ task = <<>> /\ started = <<>> /\ awaiting = <<>> /\ appended = <<>>
  /\ BackoffOff /\ FetchOff /\ SingleOff /\ MainOff /\ ToolsOff

SpecNoLog == InitNoLog /\ [][Next]_vars

\* the lines of the list that are not blank
NonBlank == SelectSeq(list, LAMBDA l : l \notin BlankLines)

\* C32: when downloaded.log cannot be read, the batch does not fail: the set
\* of downloaded URLs is empty, the URLs to process are all the non-blank
\* lines of the list, and the completed batch has started a task for each.
C32_UnreadableLog ==
  (~ logReadable /\ pc # "start") =>
     /\ pc # "raised"
     /\ downloadedSet = {}
     /\ urls = NonBlank
     /\ pc = "done" => /\ Range(started) = DOMAIN urls
                       /\ Range(UrlsOf(started)) = Range(NonBlank)

\* C32 witness: the log holds A and cannot be read, the list names A, and
\* the batch has completed with A downloaded again.
C32_Witness ==
  /\ ~ logReadable /\ log0 = <<"A">> /\ list = <<"A", "">>
  /\ pc = "done" /\ task[1].st = "done"

\* C31: when every page fetch, download attempt and wait terminates, the
\* batch completes, for every list and every limit; and it has completed
\* only when every task has finished, its cooldown over, with nothing left
\* to run.
C31_Terminates ==
  /\ <>(pc = "done")
  /\ [](pc = "done" => /\ Len(ret) = Len(urls)
                       /\ \A t \in DOMAIN task : Finished(t)
                       /\ mq = <<>> /\ awaiting = <<>>)

\* C31 witness: limit 2 and three URLs; the batch has completed after the
\* first task failed and the other two downloaded and cooled down.
C31_Witness ==
  /\ pc = "done" /\ poolLimit = 2 /\ Len(urls) = 3
  /\ task[1].st = "failed" /\ task[2].st = "done" /\ task[3].st = "done"

====
